---- MODULE Spec2Model ----
(***************************************************************************)
(* arXiv Keyword Alerter (arxiv_alerter.py): one batch run of              *)
(*   search -> per-paper (fetch, summarize) -> digest -> mail.             *)
(*                                                                         *)
(* Text is a sequence of one-character strings.  The literal pieces of an  *)
(* f-string (for instance " AND (") are single symbols of the sequence, so *)
(* that no configured character can be mistaken for them.                  *)
(***************************************************************************)
EXTENDS Integers, Sequences, FiniteSets, TLC

VARIABLES
    pc,               \* position of the run
    SEARCH_KEYWORDS,  \* line 67
    SEARCH_CATEGORY,  \* line 68
    GEMINI_API_KEY,   \* line 71 / 92: TRUE iff truthy
    gemini_client,    \* line 85 / 88: TRUE iff not None
    TEST_MODE,        \* line 72
    ctorOk,           \* environment: does genai.Client(...) succeed
    now,              \* environment: the current instant, in UTC
    response,         \* environment: what the search API answers
    query,            \* search_arxiv: the built query
    papers,           \* main: the list search_arxiv returned
    i,                \* build_email_body: enumerate index (1-based)
    full_text,        \* build_email_body: local of the current iteration
    fetched,          \* history: what fetch_paper_full_text returned, per paper
    inputs,           \* history: the text handed to the summarizer, per paper
    body,             \* build_email_body: full_email_body
    trace,            \* history: calls made, in order
    apiRequests,      \* history: generate_content requests issued
    exitStatus        \* "running", "ok" (exit code 0) or "crash" (traceback)

vars == <<pc, SEARCH_KEYWORDS, SEARCH_CATEGORY, GEMINI_API_KEY, gemini_client,
          TEST_MODE, ctorOk, now, response, query, papers, i, full_text,
          fetched, inputs, body, trace, apiRequests, exitStatus>>

-----------------------------------------------------------------------------
(* Bounds of the model *)

MaxEntries == 2     \* entries in the feed the search API returns
MaxCsvLen == 3      \* characters of a comma-separated setting

-----------------------------------------------------------------------------
(* Program constants *)

GEMINI_INPUT_MAX_CHARS == 100000
PER_PAPER_DELAY_SECONDS == 60
LOCAL_TIMEZONE == 9      \* timedelta(hours=9)

-----------------------------------------------------------------------------
(* str methods *)

RECURSIVE LStrip(_)
LStrip(s) == IF s = <<>> THEN <<>>
             ELSE IF Head(s) = " " THEN LStrip(Tail(s)) ELSE s

RECURSIVE RStrip(_)
RStrip(s) == IF s = <<>> THEN <<>>
             ELSE IF s[Len(s)] = " " THEN RStrip(SubSeq(s, 1, Len(s) - 1)) ELSE s

\* str.strip()
Strip(s) == RStrip(LStrip(s))

LowerChar(c) == CASE c = "A" -> "a" [] c = "L" -> "l" [] OTHER -> c

\* str.lower()
Lower(s) == [k \in 1..Len(s) |-> LowerChar(s[k])]

\* str.split(','): "a,,b" gives ['a', '', 'b'] and "" gives ['']
RECURSIVE Split(_)
Split(s) ==
    IF \A k \in 1..Len(s) : s[k] # ","
    THEN <<s>>
    ELSE LET k == CHOOSE n \in 1..Len(s) :
                     s[n] = "," /\ \A m \in 1..(n - 1) : s[m] # ","
         IN <<SubSeq(s, 1, k - 1)>> \o Split(SubSeq(s, k + 1, Len(s)))

\* sep.join(parts)
RECURSIVE Join(_, _)
Join(sep, parts) ==
    IF parts = <<>> THEN <<>>
    ELSE IF Len(parts) = 1 THEN parts[1]
    ELSE parts[1] \o sep \o Join(sep, Tail(parts))

\* s[:n]
Take(s, n) == SubSeq(s, 1, IF Len(s) < n THEN Len(s) ELSE n)

RECURSIVE SelectStripped(_)
SelectStripped(items) ==
    IF items = <<>> THEN <<>>
    ELSE IF Strip(Head(items)) # <<>>
         THEN <<Strip(Head(items))>> \o SelectStripped(Tail(items))
         ELSE SelectStripped(Tail(items))

parse_csv_env(value) == SelectStripped(Split(value))

-----------------------------------------------------------------------------
(* datetime: proleptic Gregorian calendar, as the datetime module computes *)

DateTime(y, mo, d, h, mi, sec) ==
    [y |-> y, mo |-> mo, d |-> d, h |-> h, mi |-> mi, s |-> sec]

IsLeap(y) == y % 4 = 0 /\ (y % 100 # 0 \/ y % 400 = 0)

DaysInMonth(y, m) ==
    IF m = 2 THEN (IF IsLeap(y) THEN 29 ELSE 28)
    ELSE IF m \in {4, 6, 9, 11} THEN 30 ELSE 31

DaysBeforeYear(y) ==
    (y - 1) * 365 + ((y - 1) \div 4) - ((y - 1) \div 100) + ((y - 1) \div 400)

RECURSIVE DaysBeforeMonth(_, _)
DaysBeforeMonth(y, m) ==
    IF m = 1 THEN 0 ELSE DaysBeforeMonth(y, m - 1) + DaysInMonth(y, m - 1)

\* date.toordinal()
ToOrdinal(y, m, d) == DaysBeforeYear(y) + DaysBeforeMonth(y, m) + d

\* date.fromordinal(n)
FromOrdinal(n) ==
    LET y == CHOOSE yy \in (n \div 366)..(n \div 365 + 1) :
                 DaysBeforeYear(yy) < n /\ n <= DaysBeforeYear(yy + 1)
        r == n - DaysBeforeYear(y)
        m == CHOOSE mm \in 1..12 :
                 DaysBeforeMonth(y, mm) < r
                 /\ r <= DaysBeforeMonth(y, mm) + DaysInMonth(y, mm)
    IN <<y, m, r - DaysBeforeMonth(y, m)>>

\* datetime.strptime(text, '%Y-%m-%dT%H:%M:%SZ') raises ValueError unless
\* every field is in range
StrptimeOk(t) ==
    /\ t.mo \in 1..12
    /\ t.d \in 1..DaysInMonth(t.y, t.mo)
    /\ t.h \in 0..23
    /\ t.mi \in 0..59
    /\ t.s \in 0..59

LocalOrdinalInUtc(dt) == ToOrdinal(dt.y, dt.mo, dt.d)

\* dt.astimezone(LOCAL_TIMEZONE).date() of a UTC datetime, as an ordinal day
LocalOrdinal(dt) ==
    LET secs == (dt.h + LOCAL_TIMEZONE) * 3600 + dt.mi * 60 + dt.s
    IN ToOrdinal(dt.y, dt.mo, dt.d) + (secs \div 86400)

\* published_dt.astimezone(LOCAL_TIMEZONE).date()
published_local_date(dt) == FromOrdinal(LocalOrdinal(dt))

\* (datetime.now(LOCAL_TIMEZONE) - timedelta(days=1)).date()
target_date(nowUtc) == FromOrdinal(LocalOrdinal(nowUtc) - 1)

\* published_dt.strftime('%Y-%m-%d %H:%M:%S UTC'): the UTC fields, unshifted
FormatPublished(dt) == <<dt.y, dt.mo, dt.d, dt.h, dt.mi, dt.s, "UTC">>

-----------------------------------------------------------------------------
(* The Atom feed.  An element is present or not; its text is None when the *)
(* element is empty, which ElementTree reports for <title></title>.        *)

NoElement == [present |-> FALSE, text |-> <<>>]
Element(t) == [present |-> TRUE, text |-> t]

\* get_required_entry_text raises ValueError
RequiredTextMissing(el) == ~el.present \/ el.text = <<>>

get_required_entry_text(el) == Strip(el.text)

\* link.split('/abs/')[-1]; "/abs/" is one symbol of the text
RECURSIVE AfterLastAbs(_)
AfterLastAbs(link) ==
    IF \A k \in 1..Len(link) : link[k] # "/abs/" THEN link
    ELSE LET k == CHOOSE n \in 1..Len(link) :
                     link[n] = "/abs/" /\ \A m \in 1..(n - 1) : link[m] # "/abs/"
         IN AfterLastAbs(SubSeq(link, k + 1, Len(link)))

RECURSIVE AuthorNames(_)
AuthorNames(names) ==
    IF names = <<>> THEN <<>>
    ELSE IF Head(names).text # <<>> /\ Strip(Head(names).text) # <<>>
         THEN <<Strip(Head(names).text)>> \o AuthorNames(Tail(names))
         ELSE AuthorNames(Tail(names))

\* build_paper_info raises ValueError
BuildPaperInfoFails(entry) ==
    \/ RequiredTextMissing(entry.id)
    \/ RequiredTextMissing(entry.title)
    \/ RequiredTextMissing(entry.summary)

build_paper_info(entry, published_dt) ==
    LET link == get_required_entry_text(entry.id)
        arxiv_id == AfterLastAbs(link)
    IN [id |-> arxiv_id,
        title |-> get_required_entry_text(entry.title),
        summary |-> get_required_entry_text(entry.summary),
        authors |-> AuthorNames(entry.authors),
        link |-> link,
        html_link |-> <<"https://arxiv.org/html/">> \o arxiv_id,
        published |-> FormatPublished(published_dt)]

\* the body of the try block of search_arxiv's loop: does the entry reach
\* found_papers.append
EntryKept(entry, nowUtc) ==
    /\ ~RequiredTextMissing(entry.published)
    /\ StrptimeOk(entry.published.text[1])
    /\ published_local_date(entry.published.text[1]) = target_date(nowUtc)
    /\ ~BuildPaperInfoFails(entry)

RECURSIVE FoundPapersNewestLast(_, _)
FoundPapersNewestLast(entries, nowUtc) ==
    IF entries = <<>> THEN <<>>
    ELSE IF EntryKept(Head(entries), nowUtc)
         THEN FoundPapersNewestLast(Tail(entries), nowUtc)
              \o <<build_paper_info(Head(entries), Head(entries).published.text[1])>>
         ELSE FoundPapersNewestLast(Tail(entries), nowUtc)

\* the for loop of search_arxiv over root.findall('atom:entry')
RECURSIVE FoundPapers(_, _)
FoundPapers(entries, nowUtc) ==
    IF entries = <<>> THEN <<>>
    ELSE IF EntryKept(Head(entries), nowUtc)
         THEN <<build_paper_info(Head(entries), Head(entries).published.text[1])>>
              \o FoundPapers(Tail(entries), nowUtc)
         ELSE FoundPapers(Tail(entries), nowUtc)

-----------------------------------------------------------------------------
(* Query builder *)

KeywordTerm(keyword) == <<"(ti:\"">> \o keyword \o <<"\" OR abs:\"">> \o keyword \o <<"\")">>

CategoryTerm(category) == <<"cat:">> \o category

build_search_query(search_keywords, search_category) ==
    LET keyword_terms == parse_csv_env(search_keywords)
        keywords == [k \in 1..Len(keyword_terms) |-> KeywordTerm(keyword_terms[k])]
        q == <<"(">> \o Join(<<" OR ">>, keywords) \o <<")">>
    IN IF search_category # <<>> /\ Lower(search_category) # <<"a", "l", "l">>
       THEN LET category_terms == parse_csv_env(search_category)
                categories == [k \in 1..Len(category_terms) |->
                                  CategoryTerm(category_terms[k])]
            IN q \o <<" AND (">> \o Join(<<" OR ">>, categories) \o <<")">>
       ELSE q

-----------------------------------------------------------------------------
(* Digest *)

\* normalized_keyword in text
Contains(sub, text) ==
    \E k \in 0..(Len(text) - Len(sub)) : SubSeq(text, k + 1, k + Len(sub)) = sub

RECURSIVE HitCount(_, _)
HitCount(keyword, ps) ==
    IF ps = <<>> THEN 0
    ELSE (IF Contains(Lower(keyword),
                      Lower(Head(ps).title \o <<"\n">> \o Head(ps).summary))
          THEN 1 ELSE 0) + HitCount(keyword, Tail(ps))

build_keyword_counts_section(ps, search_keywords) ==
    LET keywords == parse_csv_env(search_keywords)
    IN [k \in 1..Len(keywords) |->
           [keyword |-> keywords[k], hit_count |-> HitCount(keywords[k], ps)]]

build_paper_section(index, paper, summary_ja) ==
    [index |-> index, title |-> paper.title, authors |-> paper.authors,
     published |-> paper.published, link |-> paper.link,
     summary_ja |-> summary_ja, abstract |-> paper.summary]

NoBody == [count |-> 0, keyword_counts |-> <<>>, titles |-> <<>>, sections |-> <<>>]

-----------------------------------------------------------------------------
(* Summarizer results *)

NoPrompt == [title |-> <<>>, authors |-> <<>>, text |-> <<>>]

Prompt(paper_info, text) ==
    [title |-> paper_info.title, authors |-> paper_info.authors,
     text |-> Take(text, GEMINI_INPUT_MAX_CHARS)]

Skipped == [kind |-> "skipped", prompt |-> NoPrompt]
EmptyResponse == [kind |-> "empty", prompt |-> NoPrompt]
GenerationError == [kind |-> "error", prompt |-> NoPrompt]
\* response.text: the service's answer to the prompt it was sent
Generated(prompt) == [kind |-> "generated", prompt |-> prompt]

GenerationOutcomes == {"text", "empty", "error"}

SummarizerSkipsNever(api_key, client) == FALSE

\* line 99: does generate_summary_with_gemini return before building the prompt
SummarizerSkips(api_key, client) == ~api_key \/ ~client

generate_summary_with_gemini(api_key, client, paper_info, text, outcome) ==
    IF SummarizerSkips(api_key, client) THEN Skipped
    ELSE CASE outcome = "text" -> Generated(Prompt(paper_info, text))
           [] outcome = "empty" -> EmptyResponse
           [] OTHER -> GenerationError

-----------------------------------------------------------------------------
(* Fetcher results: None or the extracted text *)

Unavailable == [ok |-> FALSE, text |-> <<>>]
Fetched(t) == [ok |-> TRUE, text |-> t]

\* "transport": requests.RequestException (timeout, connection, non-2xx);
\* "parse": any other exception (for instance soup.body is None);
\* "blank": a page whose extracted text is empty; "page": a page with text
FetchOutcomes == {"transport", "parse", "blank", "page"}

fetch_paper_full_text(html_url, outcome) ==
    CASE outcome = "page" -> Fetched(<<"page of ">> \o html_url)
      [] outcome = "blank" -> Fetched(<<>>)
      [] OTHER -> Unavailable

FetchFailures == {"transport", "parse"}

FetchRaisesUnlessRequestException(outcome) == outcome \in FetchFailures \ {"transport"}

\* lines 163-168: `except requests.RequestException`, then `except Exception`:
\* does the failure leave fetch_paper_full_text
FetchRaises(outcome) == outcome \in FetchFailures \ {"transport", "parse"}

SummarizerInputUnlessNone(result, paper) ==
    IF ~result.ok THEN paper.summary ELSE result.text

\* lines 347-349: `if not full_text: full_text = paper['summary']`
SummarizerInput(result, paper) ==
    IF ~result.ok \/ result.text = <<>> THEN paper.summary ELSE result.text

-----------------------------------------------------------------------------
(* Inputs of a run *)

Digit(k) == CASE k = 1 -> "1" [] k = 2 -> "2" [] k = 3 -> "3" [] OTHER -> "9"

Now0 == DateTime(2024, 1, 3, 1, 0, 0)          \* 2024-01-03 10:00 +09:00
OnTarget == DateTime(2024, 1, 2, 10, 0, 0)
OffTarget == DateTime(2024, 1, 2, 23, 59, 59)
BadMonth == DateTime(2024, 13, 2, 10, 0, 0)

EntryKinds == {"good", "offdate", "baddate", "notitle", "blanktitle", "blanksummary"}

\* the k-th entry of a feed: ids, titles and abstracts differ by position
EntryOf(kind, k) ==
    [id |-> Element(<<"http://arxiv.org", "/abs/", "2401.0000", Digit(k)>>),
     title |-> CASE kind = "notitle" -> NoElement
                 [] kind = "blanktitle" -> Element(<<" ">>)
                 [] OTHER -> Element(<<" ", "t", Digit(k), " ">>),
     summary |-> IF kind = "blanksummary" THEN Element(<<" ">>)
                 ELSE Element(<<"s", Digit(k)>>),
     authors |-> <<Element(<<"x", Digit(k)>>), Element(<<" ">>), Element(<<>>)>>,
     published |-> CASE kind = "offdate" -> Element(<<OffTarget>>)
                     [] kind = "baddate" -> Element(<<BadMonth>>)
                     [] OTHER -> Element(<<OnTarget>>)]

FeedsOfKinds == UNION {[1..n -> EntryKinds] : n \in 0..MaxEntries}

Feeds == {[k \in 1..Len(kinds) |-> EntryOf(kinds[k], k)] : kinds \in FeedsOfKinds}

\* what the search request comes back with
TransportError == [kind |-> "transport_error", entries |-> <<>>]
Unparseable == [kind |-> "unparseable", entries |-> <<>>]
FeedResponse(entries) == [kind |-> "feed", entries |-> entries]

Responses == {TransportError, Unparseable} \cup {FeedResponse(f) : f \in Feeds}

InitWith(keywords, categories, nows, responses, start) ==
    /\ pc = start
    /\ SEARCH_KEYWORDS \in keywords
    /\ SEARCH_CATEGORY \in categories
    /\ GEMINI_API_KEY \in (IF start = "setup" THEN BOOLEAN ELSE {FALSE})
    /\ gemini_client = FALSE
    /\ TEST_MODE \in (IF start = "setup" THEN BOOLEAN ELSE {TRUE})
    /\ ctorOk \in (IF start = "setup" THEN BOOLEAN ELSE {TRUE})
    /\ now \in nows
    /\ response \in responses
    /\ query = <<>>
    /\ papers = <<>>
    /\ i = 0
    /\ full_text = <<>>
    /\ fetched = <<>>
    /\ inputs = <<>>
    /\ body = NoBody
    /\ trace = <<>>
    /\ apiRequests = 0
    /\ exitStatus = "running"

\* the state after the required settings have loaded (lines 67-81)
Init == InitWith({<<"t", ",", "z">>}, {<<"a", "l", "l">>}, {Now0}, Responses, "setup")

-----------------------------------------------------------------------------
(* The run *)

Call(op, arg) == [op |-> op, arg |-> arg]

\* lines 85-94
GeminiSetup ==
    /\ pc = "setup"
    /\ gemini_client' = (GEMINI_API_KEY /\ ctorOk)
    /\ GEMINI_API_KEY' = (GEMINI_API_KEY /\ ctorOk)
    /\ pc' = "main"
    /\ UNCHANGED <<SEARCH_KEYWORDS, SEARCH_CATEGORY, TEST_MODE, ctorOk, now,
                   response, query, papers, i, full_text, fetched, inputs, body,
                   trace, apiRequests, exitStatus>>

\* what search_arxiv returns when it returns
search_arxiv(resp, nowUtc) ==
    IF resp.kind = "transport_error" THEN <<>> ELSE FoundPapers(resp.entries, nowUtc)

\* does an exception leave search_arxiv (ET.fromstring is outside every try)
SearchRaises(resp) == resp.kind = "unparseable"

\* line 361: papers = search_arxiv()
SearchArxiv ==
    /\ pc = "main"
    /\ query' = build_search_query(SEARCH_KEYWORDS, SEARCH_CATEGORY)
    /\ trace' = Append(trace, Call("search_request", 0))
    /\ IF SearchRaises(response)
       THEN /\ pc' = "done"
            /\ exitStatus' = "crash"
            /\ UNCHANGED papers
       ELSE /\ pc' = "searched"
            /\ papers' = search_arxiv(response, now)
            /\ UNCHANGED exitStatus
    /\ UNCHANGED <<SEARCH_KEYWORDS, SEARCH_CATEGORY, GEMINI_API_KEY, gemini_client,
                   TEST_MODE, ctorOk, now, response, i, full_text, fetched, inputs,
                   body, apiRequests>>

MainNeverReturnsEarly(ps) == FALSE

\* line 362: `if not papers`
MainNoPapers(ps) == ps = <<>>

\* lines 362-366 and 329-338: return on an empty list, else enter
\* build_email_body and write the overview, the counts and the title index
MainCheckPapers ==
    /\ pc = "searched"
    /\ IF MainNoPapers(papers)
       THEN /\ pc' = "done"
            /\ exitStatus' = "ok"
            /\ UNCHANGED <<body, i, trace>>
       ELSE /\ pc' = "loop"
            /\ i' = 1
            /\ body' = [count |-> Len(papers),
                        keyword_counts |->
                            build_keyword_counts_section(papers, SEARCH_KEYWORDS),
                        titles |-> [k \in 1..Len(papers) |-> papers[k].title],
                        sections |-> <<>>]
            /\ trace' = Append(trace, Call("build_email_body", Len(papers)))
            /\ UNCHANGED exitStatus
    /\ UNCHANGED <<SEARCH_KEYWORDS, SEARCH_CATEGORY, GEMINI_API_KEY, gemini_client,
                   TEST_MODE, ctorOk, now, response, query, papers, full_text,
                   fetched, inputs, apiRequests>>

DelayBeforeEveryPaper(index) == index >= 1

\* line 341: is the inter-paper delay taken before paper number index
DelayBefore(index) == index > 1

\* lines 340-349: the delay, then the fetch with its fallback to the abstract
FetchPaper ==
    /\ pc = "loop"
    /\ i <= Len(papers)
    /\ \E outcome \in FetchOutcomes :
         LET result == fetch_paper_full_text(papers[i].html_link, outcome)
         IN IF FetchRaises(outcome)
            THEN /\ pc' = "done"
                 /\ exitStatus' = "crash"
                 /\ UNCHANGED <<fetched, full_text>>
            ELSE /\ pc' = "summarize"
                 /\ fetched' = Append(fetched, result)
                 /\ full_text' = SummarizerInput(result, papers[i])
                 /\ UNCHANGED exitStatus
    /\ trace' = trace
                \o (IF DelayBefore(i)
                    THEN <<Call("sleep", PER_PAPER_DELAY_SECONDS)>> ELSE <<>>)
                \o <<Call("fetch", i)>>
    /\ UNCHANGED <<SEARCH_KEYWORDS, SEARCH_CATEGORY, GEMINI_API_KEY, gemini_client,
                   TEST_MODE, ctorOk, now, response, query, papers, i, inputs, body,
                   apiRequests>>

\* lines 351-352: summarize and append the paper's section
SummarizePaper ==
    /\ pc = "summarize"
    /\ \E outcome \in (IF SummarizerSkips(GEMINI_API_KEY, gemini_client)
                       THEN {"text"} ELSE GenerationOutcomes) :
         LET summary_ja == generate_summary_with_gemini(
                               GEMINI_API_KEY, gemini_client, papers[i], full_text, outcome)
             requested == ~SummarizerSkips(GEMINI_API_KEY, gemini_client)
         IN /\ body' = [body EXCEPT !.sections =
                            Append(@, build_paper_section(i, papers[i], summary_ja))]
            /\ apiRequests' = apiRequests + (IF requested THEN 1 ELSE 0)
            /\ trace' = trace \o <<Call("summarize", i)>>
                        \o (IF requested THEN <<Call("generate_content", i)>> ELSE <<>>)
                        \o (IF requested /\ outcome # "error"
                            THEN <<Call("sleep", 1)>> ELSE <<>>)
    /\ inputs' = Append(inputs, full_text)
    /\ i' = i + 1
    /\ pc' = "loop"
    /\ UNCHANGED <<SEARCH_KEYWORDS, SEARCH_CATEGORY, GEMINI_API_KEY, gemini_client,
                   TEST_MODE, ctorOk, now, response, query, papers, full_text,
                   fetched, exitStatus>>

\* lines 354 and 367, 259-286: the loop is over; send_email(subject, body).
\* The mail settings all come from get_env_var, so none is empty and the
\* "settings incomplete" return of line 268 is never taken; every SMTP
\* failure is caught at line 285.
SendEmail ==
    /\ pc = "loop"
    /\ i > Len(papers)
    /\ \E smtp \in (IF TEST_MODE THEN {"none"} ELSE {"sent", "failed"}) :
         trace' = trace \o <<Call("send_email", Len(body.sections))>>
                  \o (IF TEST_MODE THEN <<Call("print_body", 0)>>
                      ELSE <<Call("smtp", IF smtp = "sent" THEN 1 ELSE 0)>>)
    /\ pc' = "done"
    /\ exitStatus' = "ok"
    /\ UNCHANGED <<SEARCH_KEYWORDS, SEARCH_CATEGORY, GEMINI_API_KEY, gemini_client,
                   TEST_MODE, ctorOk, now, response, query, papers, i, full_text,
                   fetched, inputs, body, apiRequests>>

Next ==
    \/ GeminiSetup
    \/ SearchArxiv
    \/ MainCheckPapers
    \/ FetchPaper
    \/ SummarizePaper
    \/ SendEmail

Spec == Init /\ [][Next]_vars

-----------------------------------------------------------------------------
(* The query builder on every setting get_env_var can return *)

KeywordChars == {",", " ", "k"}
CategoryChars == {",", " ", "a", "l", "L"}

Texts(chars) == UNION {[1..n -> chars] : n \in 1..MaxCsvLen}

\* lines 45-53: the values get_env_var returns rather than exiting
get_env_var(values) == {Strip(v) : v \in {w \in values : Strip(w) # <<>>}}

InitQuery ==
    InitWith(get_env_var(Texts(KeywordChars)), get_env_var(Texts(CategoryChars)),
             {Now0}, {TransportError}, "main")

SpecQuery == InitQuery /\ [][SearchArxiv]_vars

-----------------------------------------------------------------------------
(* The date filter on one-entry feeds around day, month and year ends *)

Days == {<<2023, 2, 28>>, <<2023, 3, 1>>, <<2023, 12, 31>>, <<2024, 1, 1>>,
         <<2024, 1, 2>>, <<2024, 1, 3>>, <<2024, 2, 28>>, <<2024, 2, 29>>,
         <<2024, 3, 1>>}
Hours == {0, 10, 14, 15, 23}
MinSecs == {<<0, 0>>, <<59, 59>>}

Instants == {DateTime(d[1], d[2], d[3], h, ms[1], ms[2]) :
                 d \in Days, h \in Hours, ms \in MinSecs}

EntryPublishedAt(kind, dt) == [EntryOf(kind, 1) EXCEPT !.published = Element(<<dt>>)]

DatedFeeds == {FeedResponse(<<EntryPublishedAt(kind, dt)>>) :
                   kind \in {"good", "notitle"}, dt \in Instants}

InitDate ==
    InitWith({<<"k">>}, {<<"a", "l", "l">>}, Instants, DatedFeeds, "main")

SpecDate == InitDate /\ [][SearchArxiv]_vars

-----------------------------------------------------------------------------
(* Properties *)

Positions(op) == {k \in DOMAIN trace : trace[k].op = op}
PositionsOf(call) == {k \in DOMAIN trace : trace[k] = call}
Made(op) == Positions(op) # {}

SearchReturned == pc \in {"searched", "loop", "summarize"}
                  \/ (pc = "done" /\ exitStatus = "ok")
Finished == pc = "done" /\ exitStatus = "ok"

\* C1: when search_arxiv returns an empty list, build_email_body and
\* send_email are never invoked, nothing is fetched or generated, and the
\* run ends with exit code 0.
C1_EmptySearchEndsQuietly ==
    (SearchReturned /\ papers = <<>>) =>
        /\ pc \in {"searched", "done"}
        /\ \A k \in DOMAIN trace : trace[k].op = "search_request"
        /\ apiRequests = 0
        /\ body = NoBody
        /\ (pc = "done" => exitStatus = "ok")

C1_Witness ==
    /\ Finished
    /\ papers = <<>>
    /\ response.kind = "feed"
    /\ response.entries # <<>>

\* C2: with N >= 1 papers returned, whatever each fetch and each generation
\* did, a finished run has processed all N papers, has built the digest once
\* and has called send_email exactly once, after the last summarization; and
\* the run cannot end before that.
C2_BatchAlwaysDispatched ==
    papers # <<>> =>
        /\ exitStatus # "crash"
        /\ (pc = "done" =>
              /\ Len(fetched) = Len(papers)
              /\ Len(inputs) = Len(papers)
              /\ Len(body.sections) = Len(papers)
              /\ \A n \in 1..Len(papers) :
                     /\ Cardinality(PositionsOf(Call("fetch", n))) = 1
                     /\ Cardinality(PositionsOf(Call("summarize", n))) = 1
              /\ Cardinality(Positions("build_email_body")) = 1
              /\ Cardinality(Positions("send_email")) = 1
              /\ \A k \in Positions("send_email") :
                     /\ trace[k].arg = Len(papers)
                     /\ \A m \in Positions("summarize") \cup Positions("fetch") : m < k)
        /\ (pc # "done" => ~Made("send_email"))

C2_Witness ==
    /\ Finished
    /\ Len(papers) = 2
    /\ ~fetched[1].ok
    /\ fetched[2].ok
    /\ body.sections[1].summary_ja.kind = "generated"
    /\ body.sections[2].summary_ja.kind = "error"

\* C3: no failure of an external step ever ends the run in a crash.
C3_NoCrash == exitStatus # "crash"

\* C4 as stated: the summarizer gets the fetched text when the fetch
\* returned text, the paper's own abstract when the fetch was unavailable,
\* and never an empty string.
C4_InputNeverEmpty ==
    \A k \in DOMAIN inputs :
        /\ (fetched[k].ok /\ fetched[k].text # <<>>) => inputs[k] = fetched[k].text
        /\ ~fetched[k].ok => inputs[k] = papers[k].summary
        /\ inputs[k] # <<>>

\* C4 amended: the summarizer gets the fetched text when the fetch returned
\* non-empty text and otherwise exactly the paper's own abstract; it gets an
\* empty string only when that paper's own abstract is empty.
C4_InputIsTextOrOwnAbstract ==
    \A k \in DOMAIN inputs :
        LET hasText == fetched[k].ok /\ fetched[k].text # <<>>
        IN /\ hasText => inputs[k] = fetched[k].text
           /\ ~hasText => inputs[k] = papers[k].summary
           /\ inputs[k] = <<>> => papers[k].summary = <<>>
           /\ \A j \in DOMAIN papers :
                  (j # k /\ papers[j].summary # papers[k].summary)
                      => inputs[k] # papers[j].summary

C4_Witness ==
    /\ Len(inputs) = 2
    /\ ~fetched[1].ok
    /\ inputs[1] = papers[1].summary
    /\ inputs[1] # <<>>
    /\ fetched[2].ok
    /\ fetched[2].text = <<>>
    /\ inputs[2] = papers[2].summary
    /\ papers[1].summary # papers[2].summary

InterPaperDelay == Call("sleep", PER_PAPER_DELAY_SECONDS)

\* C5: the inter-paper delay is never taken before the first paper's fetch,
\* is taken exactly once between the summarization of paper n and the fetch
\* of paper n+1, and so N-1 times in a run over N papers.
C5_DelayBetweenPapersOnly ==
    /\ \A k \in PositionsOf(Call("fetch", 1)) :
           \A m \in 1..k : trace[m] # InterPaperDelay
    /\ \A n \in 2..Len(papers) :
           \A k \in PositionsOf(Call("fetch", n)) :
               \A j \in PositionsOf(Call("summarize", n - 1)) :
                   /\ j < k
                   /\ Cardinality({m \in j..k : trace[m] = InterPaperDelay}) = 1
    /\ Cardinality(PositionsOf(InterPaperDelay))
           = Cardinality(Positions("fetch"))
             - (IF Made("fetch") THEN 1 ELSE 0)
    /\ (Finished /\ papers # <<>>) =>
           Cardinality(PositionsOf(InterPaperDelay)) = Len(papers) - 1

C5_Witness ==
    /\ Finished
    /\ Len(papers) = 2
    /\ ~fetched[1].ok
    /\ Cardinality(PositionsOf(InterPaperDelay)) = 1

\* C6: with no generation credential (key absent, or client construction
\* failed) every summary is the "skipped" sentinel, no generation request is
\* ever made, and the digest is still assembled and dispatched.
C6_NoCredentialNoRequest ==
    /\ (pc # "setup" /\ ~ctorOk) => ~gemini_client
    /\ (pc # "setup" /\ (~GEMINI_API_KEY \/ ~gemini_client)) =>
           /\ apiRequests = 0
           /\ ~Made("generate_content")
           /\ \A k \in DOMAIN body.sections : body.sections[k].summary_ja = Skipped
           /\ (Finished /\ papers # <<>>) =>
                  /\ Len(body.sections) = Len(papers)
                  /\ Made("send_email")

C6_Witness ==
    /\ Finished
    /\ ~ctorOk
    /\ ~GEMINI_API_KEY
    /\ Len(body.sections) = 2
    /\ Made("send_email")

-----------------------------------------------------------------------------
(* The civil calendar, stepped a day at a time *)

MonthLengths == <<31, 28, 31, 30, 31, 30, 31, 31, 30, 31, 30, 31>>

CivilMonthLength(y, m) ==
    IF m = 2 /\ (y % 400 = 0 \/ (y % 4 = 0 /\ y % 100 # 0)) THEN 29
    ELSE MonthLengths[m]

CivilNextDay(date) ==
    LET y == date[1]
        m == date[2]
        d == date[3]
    IN IF d < CivilMonthLength(y, m) THEN <<y, m, d + 1>>
       ELSE IF m < 12 THEN <<y, m + 1, 1>> ELSE <<y + 1, 1, 1>>

CivilPrevDay(date) ==
    LET y == date[1]
        m == date[2]
        d == date[3]
    IN IF d > 1 THEN <<y, m, d - 1>>
       ELSE IF m > 1 THEN <<y, m - 1, CivilMonthLength(y, m - 1)>>
       ELSE <<y - 1, 12, 31>>

\* the calendar date, nine hours east, of a UTC instant
CivilDatePlus9h(dt) ==
    IF dt.h >= 15 THEN CivilNextDay(<<dt.y, dt.mo, dt.d>>) ELSE <<dt.y, dt.mo, dt.d>>

CivilTarget(nowUtc) == CivilPrevDay(CivilDatePlus9h(nowUtc))

FieldPresent(el) == el.present /\ el.text # <<>>

RequiredFieldsPresent(entry) ==
    /\ FieldPresent(entry.id)
    /\ FieldPresent(entry.title)
    /\ FieldPresent(entry.summary)
    /\ FieldPresent(entry.published)

\* the entry is in the returned list
Returned(entry) == \E n \in DOMAIN papers : papers[n].link = Strip(entry.id.text)

\* C7: an entry with a well-formed timestamp T is kept iff the calendar date
\* of T+9h is the calendar date of now+9h minus one day and its required
\* fields are present; 2024-01-02T23:59:59Z is excluded from the target
\* 2024-01-02 and 2024-01-02T10:00:00Z is included exactly for that target.
C7_KeptIffPublishedYesterdayLocal ==
    SearchReturned =>
        \A k \in DOMAIN response.entries :
            LET entry == response.entries[k]
                T == entry.published.text[1]
            IN (FieldPresent(entry.published) /\ StrptimeOk(T)) =>
                 /\ Returned(entry) <=>
                        /\ CivilDatePlus9h(T) = CivilTarget(now)
                        /\ RequiredFieldsPresent(entry)
                 /\ (T = DateTime(2024, 1, 2, 23, 59, 59)
                        /\ CivilTarget(now) = <<2024, 1, 2>>) => ~Returned(entry)
                 /\ (T = DateTime(2024, 1, 2, 10, 0, 0) /\ RequiredFieldsPresent(entry))
                        => (Returned(entry) <=> CivilTarget(now) = <<2024, 1, 2>>)

C7_Witness ==
    /\ SearchReturned
    /\ Len(response.entries) = 1
    /\ response.entries[1].published.text[1] = DateTime(2024, 2, 28, 15, 0, 0)
    /\ now = DateTime(2024, 3, 1, 14, 59, 59)
    /\ Len(papers) = 1

\* C8: every returned paper has its required fields and a title that is
\* non-empty after trimming; an entry missing a required field is skipped,
\* so the list holds exactly the complete entries of the target date.
C8_ReturnedPapersComplete ==
    SearchReturned =>
        /\ \A n \in DOMAIN papers :
               /\ papers[n].id # <<>>
               /\ Strip(papers[n].title) # <<>>
               /\ papers[n].published # <<>>
        /\ Len(papers) = Cardinality({k \in DOMAIN response.entries :
                             /\ RequiredFieldsPresent(response.entries[k])
                             /\ StrptimeOk(response.entries[k].published.text[1])
                             /\ CivilDatePlus9h(response.entries[k].published.text[1])
                                    = CivilTarget(now)})

HasCategoryClause(q) == \E k \in DOMAIN q : q[k] = " AND ("

EmptyGroup(q) ==
    \E k \in DOMAIN q :
        /\ k < Len(q)
        /\ q[k] \in {"(", " AND ("}
        /\ q[k + 1] = ")"

Suffix(q, n) == SubSeq(q, Len(q) - n + 1, Len(q))

\* C9: the category clause is appended iff the category setting is not
\* "all" (in any case) and a category token remains; it is then the
\* parenthesized OR of the remaining tokens in order; the keyword clause has
\* one disjunct per remaining keyword and no group is ever empty.
C9_CategoryClauseIffTokensRemain ==
    (pc = "searched") =>
        LET cats == parse_csv_env(SEARCH_CATEGORY)
            kws == parse_csv_env(SEARCH_KEYWORDS)
            clause == <<" AND (">>
                      \o Join(<<" OR ">>, [k \in 1..Len(cats) |-> <<"cat:">> \o cats[k]])
                      \o <<")">>
        IN /\ HasCategoryClause(query) <=>
                  (Lower(SEARCH_CATEGORY) # <<"a", "l", "l">> /\ cats # <<>>)
           /\ HasCategoryClause(query) =>
                  /\ Len(query) >= Len(clause)
                  /\ Suffix(query, Len(clause)) = clause
           /\ Cardinality({k \in DOMAIN query : query[k] = "(ti:\""}) = Len(kws)
           /\ ~EmptyGroup(query)

FeedPosition(paper) ==
    CHOOSE k \in DOMAIN response.entries :
        Strip(response.entries[k].id.text) = paper.link

\* C10: the returned papers are kept feed entries in feed order, and the
\* digest has one section per paper, numbered 1..N in that order, section n
\* holding paper n's metadata and the summary made from paper n's own fetch;
\* paper n is fetched, then summarized, before paper n+1 is started.
C10_OrderPreserved ==
    /\ \A n \in DOMAIN papers :
           /\ Returned(response.entries[FeedPosition(papers[n])])
           /\ papers[n].title = Strip(response.entries[FeedPosition(papers[n])].title.text)
           /\ papers[n].summary
                  = Strip(response.entries[FeedPosition(papers[n])].summary.text)
           /\ \A m \in DOMAIN papers :
                  m < n => FeedPosition(papers[m]) < FeedPosition(papers[n])
    /\ (Finished /\ papers # <<>>) => Len(body.sections) = Len(papers)
    /\ body.titles \in {<<>>, [n \in DOMAIN papers |-> papers[n].title]}
    /\ \A n \in DOMAIN body.sections :
           LET section == body.sections[n]
           IN /\ section.index = n
              /\ section.title = papers[n].title
              /\ section.link = papers[n].link
              /\ section.authors = papers[n].authors
              /\ section.published = papers[n].published
              /\ section.abstract = papers[n].summary
              /\ section.summary_ja.kind = "generated" =>
                     /\ section.summary_ja.prompt.title = papers[n].title
                     /\ section.summary_ja.prompt.text = inputs[n]
              /\ inputs[n] \in {papers[n].summary,
                                <<"page of ">> \o papers[n].html_link}
    /\ \A n \in DOMAIN papers :
           \A s \in PositionsOf(Call("summarize", n)) :
               /\ \E f \in PositionsOf(Call("fetch", n)) : f < s
               /\ \A f \in PositionsOf(Call("fetch", n + 1)) : s < f

C10_Witness ==
    /\ Finished
    /\ Len(papers) = 2
    /\ Len(body.sections) = 2
    /\ body.sections[1].summary_ja.kind = "generated"
    /\ body.sections[2].summary_ja.kind = "generated"
    /\ inputs[1] = papers[1].summary
    /\ inputs[2] = <<"page of ">> \o papers[2].html_link

====
